---- MODULE Spec2Model ----
(***************************************************************************)
(* Model of the Barajas flight collector: src/main.py (FastAPI revision)   *)
(* and src/app.py (Flask revision).  Both revisions share the request ->   *)
(* normalise -> INSERT OR IGNORE pipeline; they differ in the credential   *)
(* check, in how an absent "response" field is read, in the natural key of *)
(* the departures table and in the HTTP status of the report.  The         *)
(* variable rev says which revision is deployed.                           *)
(***************************************************************************)
EXTENDS Integers, Sequences, FiniteSets, TLC

(***************************************************************************)
(* Bounds of the model.                                                    *)
(***************************************************************************)
\* longest "response" list the upstream API returns in the model
MaxBatch == 2
\* last reading of the Madrid wall clock (seconds, abstracted)
MaxClock == 2

(***************************************************************************)
(* Python / JSON values.  Every scalar field of a raw record is a string;  *)
(* NoneV is Python's None (key absent from the JSON object), "" the empty  *)
(* string, BadV a JSON array/object, which sqlite3 cannot bind.            *)
(***************************************************************************)
NoneV == "<None>"
BadV == "<list>"

\* Python truthiness of a scalar field: `not x` holds for None and "".
Truthy(v) == v \notin {NoneV, ""}

(***************************************************************************)
(* Time strings.  k: "none" (None), "empty" (""), "text" (not a date),     *)
(* "iso" (a date-time d h:m:s with an optional UTC offset off).  An "iso"  *)
(* string with a field out of range (hour 24) is one dateutil rejects.     *)
(***************************************************************************)
NoTime == [k |-> "none", d |-> 0, h |-> 0, m |-> 0, s |-> 0, off |-> ""]
EmptyTime == [k |-> "empty", d |-> 0, h |-> 0, m |-> 0, s |-> 0, off |-> ""]
TextTime == [k |-> "text", d |-> 0, h |-> 0, m |-> 0, s |-> 0, off |-> ""]
Iso(d, h, m, s, off) == [k |-> "iso", d |-> d, h |-> h, m |-> m, s |-> s, off |-> off]

\* Python truthiness of a time string
TruthyTime(t) == t.k \notin {"none", "empty"}

\* dateutil.parser.parse succeeds
Parseable(t) == t.k = "iso" /\ t.d >= 1 /\ t.h <= 23 /\ t.m <= 59 /\ t.s <= 59

\* parser.parse(t).replace(tzinfo=None): the wall-clock reading, offset dropped,
\* as seconds since day 0
ParseNaive(t) == ((t.d * 24 + t.h) * 60 + t.m) * 60 + t.s

\* variant: floor division (delay_seconds // 60)
IntDivFloor(x, n) == x \div n

\* int(x / n): truncation toward zero
IntDiv(x, n) == IF x >= 0 THEN x \div n ELSE 0 - ((0 - x) \div n)

\* delay_minutes is None or an int: <<>> is None, <<n>> the integer n
NullDelay == <<>>

calculate_delay(actual_time_str, scheduled_time_str) ==
    IF ~TruthyTime(actual_time_str) \/ ~TruthyTime(scheduled_time_str)
    THEN NullDelay
    ELSE IF ~Parseable(actual_time_str) \/ ~Parseable(scheduled_time_str)
         THEN NullDelay   \* except Exception: return None
         ELSE << IntDiv(ParseNaive(actual_time_str) - ParseNaive(scheduled_time_str), 60) >>

(***************************************************************************)
(* Raw flight records (JSON objects of the upstream "response" list) and   *)
(* stored rows.  airline_iata stands for every column that is copied with  *)
(* r.get(...) and takes no part in a key or in the delay (dep_iata,        *)
(* arr_iata, status, terminal, gate, ...): all are bound the same way.     *)
(***************************************************************************)
Arr(f, a, t, sch, est) ==
    [flight_iata |-> f, airline_iata |-> a, arr_time |-> t,
     arr_time_sch |-> sch, arr_estimated |-> est]

Dep(f, a, t, sch, est) ==
    [flight_iata |-> f, airline_iata |-> a, dep_time |-> t,
     dep_time_sch |-> sch, dep_estimated |-> est]

T1 == Iso(1, 10, 0, 0, "Z")
T2 == Iso(1, 10, 15, 0, "Z")
T3 == Iso(1, 9, 50, 0, "Z")

ArrivalRecords ==
    { Arr("IB1", "IB", T2, T1, NoTime),      \* landed 15 minutes late
      Arr("IB1", "UX", T2, NoTime, T3),      \* same key, other fields differ
      Arr("IB1", "IB", T3, T1, NoTime),      \* another landing, 10 minutes early
      Arr("IB1", "IB", NoTime, T1, NoTime),  \* no actual arrival time
      Arr("IB2", BadV, T2, T1, NoTime) }     \* a value sqlite3 cannot bind

DepartureRecords ==
    { Dep("IB1", "IB", NoTime, NoTime, T1),  \* active, not yet departed; estimate only
      Dep("IB1", "UX", T2, T1, NoTime),      \* departed 15 minutes late
      Dep("IB1", "IB", T2, NoTime, NoTime),  \* no scheduled nor estimated time
      Dep(NoneV, "IB", T2, T1, NoTime) }     \* no flight identifier

(***************************************************************************)
(* The SQLite store.  A table is the sequence of its rows in insertion     *)
(* order; a connection is the table it writes and its total_changes.       *)
(***************************************************************************)
\* sqlite3 binds str, int, float, None; a list or dict raises InterfaceError
Bindable(v) == v # BadV

\* PRIMARY KEY (flight_iata, arr_time)
ArrKey(row) == <<row.flight_iata, row.arr_time>>

\* PRIMARY KEY (flight_iata, dep_sch_time) in main.py, (flight_iata, dep_time) in app.py
DepKey(r, row) ==
    IF r = "main" THEN <<row.flight_iata, row.dep_sch_time>>
    ELSE <<row.flight_iata, row.dep_time>>

\* a key column holding NULL: SQLite never finds such a key equal to another
KeyHasNull(key) == key[1] = NoneV \/ key[2].k = "none"

\* variant: INSERT OR REPLACE
InsertOrReplace(conn, keys, row, key) ==
    IF \E i \in 1..Len(keys) : keys[i] = key /\ ~KeyHasNull(key)
    THEN [table |-> [i \in 1..Len(keys) |->
                        IF keys[i] = key THEN row ELSE conn.table[i]],
          total_changes |-> conn.total_changes + 1]
    ELSE [table |-> Append(conn.table, row),
          total_changes |-> conn.total_changes + 1]

\* variant: plain INSERT into a table declared without the PRIMARY KEY
InsertAlways(conn, keys, row, key) ==
    [table |-> Append(conn.table, row), total_changes |-> conn.total_changes + 1]

\* variant: the call counts every executed statement (a counter in the loop)
InsertCountingAttempts(conn, keys, row, key) ==
    IF \E i \in 1..Len(keys) : keys[i] = key /\ ~KeyHasNull(key)
    THEN [conn EXCEPT !.total_changes = @ + 1]
    ELSE [table |-> Append(conn.table, row),
          total_changes |-> conn.total_changes + 1]

\* cursor.execute("INSERT OR IGNORE INTO t VALUES (...)"): keys are the keys of
\* conn.table's rows, key the key of row
InsertOrIgnore(conn, keys, row, key) ==
    IF \E i \in 1..Len(keys) : keys[i] = key /\ ~KeyHasNull(key)
    THEN conn
    ELSE [table |-> Append(conn.table, row),
          total_changes |-> conn.total_changes + 1]

ArrKeys(table) == [i \in 1..Len(table) |-> ArrKey(table[i])]
DepKeys(r, table) == [i \in 1..Len(table) |-> DepKey(r, table[i])]

(***************************************************************************)
(* save_arrivals: one iteration of the loop over the records               *)
(***************************************************************************)
\* arr_sch_time = arr_time_sch, else arr_estimated
arr_sch_time(r) == IF TruthyTime(r.arr_time_sch) THEN r.arr_time_sch ELSE r.arr_estimated

\* variant: the check of the mandatory fields is dropped
ArrivalNeverDiscarded(r) == FALSE

\* if not flight_iata or not arr_time: continue
ArrivalDiscarded(r) == ~Truthy(r.flight_iata) \/ ~TruthyTime(r.arr_time)

ArrivalRow(r, ts) ==
    [timestamp |-> ts, flight_iata |-> r.flight_iata, airline_iata |-> r.airline_iata,
     arr_sch_time |-> arr_sch_time(r), arr_time |-> r.arr_time,
     delay_minutes |-> calculate_delay(r.arr_time, arr_sch_time(r))]

\* the parameters of the INSERT can all be bound
ArrivalBindable(r) == Bindable(r.flight_iata) /\ Bindable(r.airline_iata)

ArrivalsIteration(conn, r, ts) ==
    IF ArrivalDiscarded(r) THEN conn
    ELSE IF ~ArrivalBindable(r) THEN conn   \* except Exception: print(...)
    ELSE InsertOrIgnore(conn, ArrKeys(conn.table), ArrivalRow(r, ts), ArrKey(ArrivalRow(r, ts)))

\* the return value: the count in main.py, a sentence holding it in app.py
Returned(r, text, n) == [text |-> IF r = "main" THEN "" ELSE text, n |-> n]

(***************************************************************************)
(* save_departures                                                         *)
(***************************************************************************)
dep_sch_time(r) == IF TruthyTime(r.dep_time_sch) THEN r.dep_time_sch ELSE r.dep_estimated

\* main.py: if not flight_iata or not dep_sch_time: continue
\* app.py:  if not flight_iata or not dep_time: continue
DepartureDiscarded(rv, r) ==
    IF rv = "main"
    THEN ~Truthy(r.flight_iata) \/ ~TruthyTime(dep_sch_time(r))
    ELSE ~Truthy(r.flight_iata) \/ ~TruthyTime(r.dep_time)

DepartureRow(r, ts) ==
    [timestamp |-> ts, flight_iata |-> r.flight_iata, airline_iata |-> r.airline_iata,
     dep_sch_time |-> dep_sch_time(r), dep_time |-> r.dep_time,
     delay_minutes |-> calculate_delay(r.dep_time, dep_sch_time(r))]

DepartureBindable(r) == Bindable(r.flight_iata) /\ Bindable(r.airline_iata)

DeparturesIteration(rv, conn, r, ts) ==
    IF DepartureDiscarded(rv, r) THEN conn
    ELSE IF ~DepartureBindable(r) THEN conn   \* except Exception: print(...)
    ELSE InsertOrIgnore(conn, DepKeys(rv, conn.table), DepartureRow(r, ts),
                        DepKey(rv, DepartureRow(r, ts)))

(***************************************************************************)
(* The source client: airlabs_request                                      *)
(***************************************************************************)
\* AIRLABS_API_KEY is not in the environment
Unset == "<unset>"
PLACEHOLDER == "TU_CLAVE_DE_AIRLABS_AQUI"

\* the default of os.getenv / os.environ.get
DefaultKey(rv) ==
    IF rv = "main" THEN PLACEHOLDER ELSE "90e110b8-cdc9-4e81-886d-b2dfa3112feb"

API_KEY(rv, env) == IF env = Unset THEN DefaultKey(rv) ELSE env

\* What the upstream does with one request: "transport" (connection error,
\* timeout, non-2xx status), "error" (a JSON body with an "error" field),
\* "absent" (a JSON body with neither "error" nor "response"), "empty" (a body
\* whose "response" is []), "list" (a body whose "response" is a non-empty
\* list), "same" (the non-empty list of the previous poll once more).
UpstreamKinds == {"transport", "error", "absent", "empty", "list", "same"}

Raise(exc, msg, requested) ==
    [raised |-> exc, msg |-> msg, requested |-> requested, value |-> "none"]

Return(value) ==
    [raised |-> "", msg |-> "", requested |-> TRUE, value |-> value]

\* The outcome of airlabs_request with credential key when the upstream does u:
\* the exception raised ("" for none), whether requests.get was called, and the
\* value returned: "none" (None), "empty" ([]) or "list".
airlabs_request(rv, key, u) ==
    IF rv = "main" /\ key = PLACEHOLDER
    THEN Raise("RuntimeError", "API Key no configurada", FALSE)
    ELSE CASE u = "transport" -> Raise("RuntimeError", "Error en la peticion HTTP", TRUE)
           [] u = "error" -> Raise("RuntimeError", "Error de API", TRUE)
           [] u = "absent" ->
                IF rv = "main" THEN Return("none")            \* data.get("response")
                ELSE Raise("KeyError", "response", TRUE)      \* data["response"]
           [] u = "empty" -> Return("empty")
           [] OTHER -> Return("list")

(***************************************************************************)
(* State                                                                   *)
(***************************************************************************)
VARIABLES
    rev,              \* the deployed revision: "main" (main.py) or "app" (app.py)
    env_key,          \* AIRLABS_API_KEY in the environment, or Unset
    now,              \* the Madrid wall clock
    arrivals,         \* table arrivals of barajas.db
    departures,       \* table departures of barajas.db
    pc,               \* where the /recolectar handler is
    conn,             \* the handler's open connection
    results,          \* the report being built: one slot per filter, mensaje
    total_inserted,   \* main.py: total_inserted
    status_code,      \* the HTTP status answered (0: none yet)
    fetched,          \* history: what each fetch of this cycle did
    last,             \* history: the latest save_arrivals / save_departures call
    conns,            \* overlapping callers: each caller's connection
    lock,             \* overlapping callers: holder of the database write lock
    actual_time_str,  \* calculate_delay: first argument
    scheduled_time_str, \* calculate_delay: second argument
    delay             \* calculate_delay: value returned

storeVars == <<now, arrivals, departures>>
cycleVars == <<pc, conn, results, total_inserted, status_code, fetched, last>>
overlapVars == <<conns, lock>>
delayVars == <<actual_time_str, scheduled_time_str, delay>>
vars == <<rev, env_key, storeVars, cycleVars, overlapVars, delayVars>>

Revisions == {"main", "app"}
EnvKeys == {Unset, "k-live"}
Procs == {1, 2}

NoSlot == [tag |-> "unset", text |-> "", n |-> 0, msg |-> ""]
NoFetch == [kind |-> "", raised |-> "", msg |-> "", requested |-> FALSE]
NoCall == [kind |-> "", batch |-> <<>>, before |-> <<>>, done |-> FALSE,
           ret |-> [text |-> "", n |-> 0], repeated |-> FALSE]
Closed == [kind |-> "", timestamp |-> 0, n |-> 0, total_changes |-> 0]

\* sqlite3.connect; CREATE TABLE IF NOT EXISTS; the timestamp is read once;
\* total_changes of a new connection is 0 (initial_changes)
Connect(kind, ts) == [kind |-> kind, timestamp |-> ts, n |-> 0, total_changes |-> 0]

InitStore ==
    /\ rev \in Revisions
    /\ now = 1
    /\ arrivals = <<>>
    /\ departures = <<>>

InitCycle ==
    /\ pc = "idle"
    /\ conn = Closed
    /\ results = [llegadas |-> NoSlot, salidas |-> NoSlot, mensaje |-> ""]
    /\ total_inserted = 0
    /\ status_code = 0
    /\ fetched = [llegadas |-> NoFetch, salidas |-> NoFetch]
    /\ last = NoCall

InitOverlap ==
    /\ conns = [p \in Procs |-> Closed]
    /\ lock = 0

InitDelay ==
    /\ actual_time_str = NoTime
    /\ scheduled_time_str = NoTime
    /\ delay = NullDelay

Init ==
    /\ InitStore
    /\ env_key \in EnvKeys
    /\ InitCycle
    /\ InitOverlap
    /\ InitDelay

\* datetime.now(MADRID_TZ) advances between and during cycles
Tick ==
    /\ now < MaxClock
    /\ now' = now + 1
    /\ UNCHANGED <<rev, env_key, arrivals, departures, cycleVars, overlapVars, delayVars>>

(***************************************************************************)
(* The /recolectar handler: recolectar (main.py), recolectar_data (app.py) *)
(***************************************************************************)
ErrorSlot(rv, prefixMain, prefixApp, f) ==
    [tag |-> "error", text |-> IF rv = "main" THEN prefixMain ELSE prefixApp,
     n |-> 0, msg |-> f.msg]

CountSlot(ret) == [tag |-> "count", text |-> ret.text, n |-> ret.n, msg |-> ""]

\* `save_x(batch) if batch else ...` for a falsy batch: 0 in main.py, a sentence
\* in app.py
EmptySlot(rv, textApp) ==
    IF rv = "main" THEN [tag |-> "count", text |-> "", n |-> 0, msg |-> ""]
    ELSE [tag |-> "empty", text |-> textApp, n |-> 0, msg |-> ""]

FetchRecord(u, f) ==
    [kind |-> IF u = "same" THEN "list" ELSE u, raised |-> f.raised, msg |-> f.msg,
     requested |-> f.requested]

\* the upstream can answer with the list of the previous poll of this filter
CanRepeat(u, kind) == u = "same" => (last.kind = kind /\ last.batch # <<>>)

\* the history of a call that starts: a list met again is kept to be replayed
StartCall(u, kind, before) ==
    [kind |-> kind, batch |-> IF u = "same" THEN last.batch ELSE <<>>,
     before |-> before, done |-> FALSE, ret |-> [text |-> "", n |-> 0],
     repeated |-> (u = "same")]

\* the records the loop can meet next: any, or the next one of the replayed list
NextRecords(all) ==
    IF last.repeated
    THEN IF conn.n < Len(last.batch) THEN {last.batch[conn.n + 1]} ELSE {}
    ELSE IF conn.n < MaxBatch THEN all ELSE {}

\* the history of the previous cycle's call, once a new cycle starts: its list
\* stays, to be met again
Forget == [last EXCEPT !.before = <<>>, !.ret = [text |-> "", n |-> 0],
                       !.repeated = FALSE, !.done = FALSE]

\* the list ends here
ListEnds == IF last.repeated THEN conn.n = Len(last.batch) ELSE conn.n >= 1

Consumed(r) ==
    [last EXCEPT !.batch = IF last.repeated THEN @ ELSE Append(@, r)]

\* 1. COLECCION DE LLEGADAS: a GET /recolectar starts the first try block, up to
\* the entry of save_arrivals' loop
FetchLanded(u) ==
    /\ pc \in {"idle", "done", "crashed"}
    /\ CanRepeat(u, "arrivals")
    /\ LET f == airlabs_request(rev, API_KEY(rev, env_key), u)
           fresh == [llegadas |-> NoSlot, salidas |-> NoSlot, mensaje |-> ""]
       IN /\ fetched' = [llegadas |-> FetchRecord(u, f), salidas |-> NoFetch]
          /\ total_inserted' = 0
          /\ CASE f.raised = "RuntimeError" ->
                    /\ results' = [fresh EXCEPT !.llegadas =
                          ErrorSlot(rev, "Error en recoleccion de llegadas: ",
                                    "ERROR LLEGADAS: ", f)]
                    /\ pc' = "active"
                    /\ status_code' = 0
                    /\ last' = Forget
                    /\ UNCHANGED conn
               [] f.raised = "KeyError" ->
                    /\ results' = fresh
                    /\ pc' = "crashed"
                    /\ status_code' = 500
                    /\ last' = Forget
                    /\ UNCHANGED conn
               [] f.raised = "" /\ f.value # "list" ->
                    /\ results' = [fresh EXCEPT !.llegadas =
                          EmptySlot(rev, "Lista de llegadas vacia.")]
                    /\ pc' = "active"
                    /\ status_code' = 0
                    /\ last' = Forget
                    /\ UNCHANGED conn
               [] OTHER ->
                    /\ results' = fresh
                    /\ pc' = "save_arrivals"
                    /\ status_code' = 0
                    /\ conn' = Connect("arrivals", now)
                    /\ last' = StartCall(u, "arrivals", arrivals)
    /\ UNCHANGED <<rev, env_key, storeVars, overlapVars, delayVars>>

\* save_arrivals: one iteration of `for r in records`
StoreArrival(r) ==
    /\ pc = "save_arrivals"
    /\ r \in NextRecords(ArrivalRecords)
    /\ LET c == ArrivalsIteration([table |-> arrivals, total_changes |-> conn.total_changes],
                                  r, conn.timestamp)
       IN /\ arrivals' = c.table
          /\ conn' = [conn EXCEPT !.n = @ + 1, !.total_changes = c.total_changes]
    /\ last' = Consumed(r)
    /\ UNCHANGED <<rev, env_key, now, departures, pc, results, total_inserted,
                   status_code, fetched, overlapVars, delayVars>>

\* save_arrivals commits and returns; the first try block ends
EndArrivals ==
    /\ pc = "save_arrivals"
    /\ ListEnds
    /\ LET ret == Returned(rev, "Registros nuevos insertados en arrivals: ",
                           conn.total_changes - 0)
       IN /\ results' = [results EXCEPT !.llegadas = CountSlot(ret)]
          /\ total_inserted' = total_inserted + ret.n
          /\ last' = [last EXCEPT !.done = TRUE, !.ret = ret]
    /\ conn' = Closed
    /\ pc' = "active"
    /\ UNCHANGED <<rev, env_key, storeVars, status_code, fetched, overlapVars, delayVars>>

\* 2. COLECCION DE SALIDAS: the second try block (status "active" in main.py,
\* "departed" in app.py), up to the entry of save_departures' loop
FetchActive(u) ==
    /\ pc = "active"
    /\ CanRepeat(u, "departures")
    /\ LET f == airlabs_request(rev, API_KEY(rev, env_key), u)
       IN /\ fetched' = [fetched EXCEPT !.salidas = FetchRecord(u, f)]
          /\ CASE f.raised = "RuntimeError" ->
                    /\ results' = [results EXCEPT !.salidas =
                          ErrorSlot(rev, "Error en recoleccion de salidas activas: ",
                                    "ERROR DESPEGUES: ", f)]
                    /\ pc' = "respond"
                    /\ UNCHANGED <<conn, last, status_code>>
               [] f.raised = "KeyError" ->
                    /\ pc' = "crashed"
                    /\ status_code' = 500
                    /\ UNCHANGED <<conn, last, results>>
               [] f.raised = "" /\ f.value # "list" ->
                    /\ results' = [results EXCEPT !.salidas =
                          EmptySlot(rev, "Lista de despegues vacia.")]
                    /\ pc' = "respond"
                    /\ UNCHANGED <<conn, last, status_code>>
               [] OTHER ->
                    /\ pc' = "save_departures"
                    /\ conn' = Connect("departures", now)
                    /\ last' = StartCall(u, "departures", departures)
                    /\ UNCHANGED <<results, status_code>>
    /\ UNCHANGED <<rev, env_key, storeVars, total_inserted, overlapVars, delayVars>>

\* save_departures: one iteration of `for r in records`
StoreDeparture(r) ==
    /\ pc = "save_departures"
    /\ r \in NextRecords(DepartureRecords)
    /\ LET c == DeparturesIteration(rev, [table |-> departures,
                                          total_changes |-> conn.total_changes],
                                    r, conn.timestamp)
       IN /\ departures' = c.table
          /\ conn' = [conn EXCEPT !.n = @ + 1, !.total_changes = c.total_changes]
    /\ last' = Consumed(r)
    /\ UNCHANGED <<rev, env_key, now, arrivals, pc, results, total_inserted,
                   status_code, fetched, overlapVars, delayVars>>

\* save_departures commits and returns; the second try block ends
EndDepartures ==
    /\ pc = "save_departures"
    /\ ListEnds
    /\ LET ret == Returned(rev, "Registros nuevos insertados en departures: ",
                           conn.total_changes - 0)
       IN /\ results' = [results EXCEPT !.salidas = CountSlot(ret)]
          /\ total_inserted' = total_inserted + ret.n
          /\ last' = [last EXCEPT !.done = TRUE, !.ret = ret]
    /\ conn' = Closed
    /\ pc' = "respond"
    /\ UNCHANGED <<rev, env_key, storeVars, status_code, fetched, overlapVars, delayVars>>

HasError(res) == res.llegadas.tag = "error" \/ res.salidas.tag = "error"

\* main.py: 200 if total_inserted > 0, else 500 if an error key is in results,
\* else 200; app.py: always 200
StatusCode(rv, total, res) ==
    IF rv = "main" /\ total = 0 /\ HasError(res) THEN 500 ELSE 200

Mensaje(rv, total) ==
    IF rv = "app" THEN "Tarea de recoleccion completada"
    ELSE IF total > 0 THEN "Recoleccion completada con exito"
    ELSE "Recoleccion completada. No se insertaron registros nuevos."

\* the report is answered
Respond ==
    /\ pc = "respond"
    /\ pc' = "done"
    /\ results' = [results EXCEPT !.mensaje = Mensaje(rev, total_inserted)]
    /\ status_code' = StatusCode(rev, total_inserted, results)
    /\ UNCHANGED <<rev, env_key, storeVars, conn, total_inserted, fetched, last,
                   overlapVars, delayVars>>

\* One handler at a time (the reference behaviour).  The clock stands still here:
\* the timestamp is copied into the rows and read by nothing.
Next ==
    \/ \E u \in UpstreamKinds : FetchLanded(u)
    \/ \E r \in ArrivalRecords : StoreArrival(r)
    \/ EndArrivals
    \/ \E u \in UpstreamKinds : FetchActive(u)
    \/ \E r \in DepartureRecords : StoreDeparture(r)
    \/ EndDepartures
    \/ Respond

Spec == Init /\ [][Next]_vars

(***************************************************************************)
(* Overlapping calls of save_arrivals / save_departures (two handlers at   *)
(* once).  Each caller has its own connection.  The first INSERT a         *)
(* connection executes opens its transaction and takes the database write  *)
(* lock, kept until conn.commit(); an INSERT that meets the lock held by   *)
(* the other connection either waits for it (the caller takes no step) or  *)
(* times out with OperationalError, which the loop's except clause         *)
(* swallows.                                                               *)
(***************************************************************************)
OverlapRecords(kind) == IF kind = "arrivals" THEN ArrivalRecords ELSE DepartureRecords

\* save_x is entered: connect, CREATE TABLE IF NOT EXISTS, read the clock
Begin(p, kind) ==
    /\ conns[p] = Closed
    /\ conns' = [conns EXCEPT ![p] = Connect(kind, now)]
    /\ UNCHANGED <<rev, env_key, storeVars, lock, cycleVars, delayVars>>

\* the statement reaches SQLite: the record is kept and every value bound
Executes(kind, r) ==
    IF kind = "arrivals" THEN ~ArrivalDiscarded(r) /\ ArrivalBindable(r)
    ELSE ~DepartureDiscarded(rev, r) /\ DepartureBindable(r)

\* one iteration of the loop of caller p, over a list of any length
Insert(p, r) ==
    /\ conns[p] # Closed
    /\ r \in OverlapRecords(conns[p].kind)
    /\ LET c == conns[p]
           busy == Executes(c.kind, r) /\ lock \notin {0, p}
           old == [table |-> IF c.kind = "arrivals" THEN arrivals ELSE departures,
                   total_changes |-> c.total_changes]
           new == IF busy THEN old   \* database is locked: except Exception
                  ELSE IF c.kind = "arrivals"
                  THEN ArrivalsIteration(old, r, c.timestamp)
                  ELSE DeparturesIteration(rev, old, r, c.timestamp)
       IN /\ lock' = IF Executes(c.kind, r) /\ ~busy THEN p ELSE lock
          /\ arrivals' = IF c.kind = "arrivals" THEN new.table ELSE arrivals
          /\ departures' = IF c.kind = "departures" THEN new.table ELSE departures
          /\ conns' = [conns EXCEPT ![p] = [c EXCEPT !.total_changes = new.total_changes]]
    /\ UNCHANGED <<rev, env_key, now, cycleVars, delayVars>>

\* conn.commit(); conn.close(); return rows_inserted
Commit(p) ==
    /\ conns[p] # Closed
    /\ conns' = [conns EXCEPT ![p] = Closed]
    /\ lock' = IF lock = p THEN 0 ELSE lock
    /\ UNCHANGED <<rev, env_key, storeVars, cycleVars, delayVars>>

NextOverlap ==
    \/ Tick
    \/ \E p \in Procs, kind \in {"arrivals", "departures"} : Begin(p, kind)
    \/ \E p \in Procs, r \in ArrivalRecords \cup DepartureRecords : Insert(p, r)
    \/ \E p \in Procs : Commit(p)

\* the credential plays no part in the store
InitOverlapping ==
    /\ InitStore
    /\ env_key = "k-live"
    /\ InitCycle
    /\ InitOverlap
    /\ InitDelay

SpecOverlap == InitOverlapping /\ [][NextOverlap]_vars

(***************************************************************************)
(* calculate_delay on its own                                              *)
(***************************************************************************)
DelayInputs ==
    {NoTime, EmptyTime, TextTime}
    \cup {Iso(d, h, m, s, off) : d \in {1, 2}, h \in {10, 24}, m \in {0, 15},
                                 s \in {0, 30}, off \in {"", "+01:00"}}

CallDelay(a, b) ==
    /\ actual_time_str' = a
    /\ scheduled_time_str' = b
    /\ delay' = calculate_delay(a, b)
    /\ UNCHANGED <<rev, env_key, storeVars, cycleVars, overlapVars>>

NextDelay == \E a \in DelayInputs, b \in DelayInputs : CallDelay(a, b)

\* calculate_delay is the same function in both revisions
InitDelaying ==
    /\ InitStore
    /\ env_key = "k-live"
    /\ InitCycle
    /\ InitOverlap
    /\ InitDelay

SpecDelay == InitDelaying /\ [][NextDelay]_vars

(***************************************************************************)
(* Properties                                                              *)
(***************************************************************************)
Table(kind) == IF kind = "arrivals" THEN arrivals ELSE departures

\* the scheduled time a record resolves to: the scheduled field, else the estimate
ResolvedSch(kind, r) ==
    IF kind = "arrivals"
    THEN (IF r.arr_time_sch.k \in {"none", "empty"} THEN r.arr_estimated ELSE r.arr_time_sch)
    ELSE (IF r.dep_time_sch.k \in {"none", "empty"} THEN r.dep_estimated ELSE r.dep_time_sch)

\* the time field of a record that its table's natural key holds
MandatoryTime(kind, r) ==
    IF kind = "arrivals" THEN r.arr_time
    ELSE IF rev = "main" THEN ResolvedSch(kind, r) ELSE r.dep_time

\* the natural key of a stored row, of a raw record
RowKey(kind, row) ==
    IF kind = "arrivals" THEN <<row.flight_iata, row.arr_time>>
    ELSE IF rev = "main" THEN <<row.flight_iata, row.dep_sch_time>>
    ELSE <<row.flight_iata, row.dep_time>>

RecordKey(kind, r) == <<r.flight_iata, MandatoryTime(kind, r)>>

\* the record lacks its flight identifier or its mandatory time field
Lacks(kind, r) ==
    \/ r.flight_iata \in {NoneV, ""}
    \/ MandatoryTime(kind, r).k \in {"none", "empty"}

\* a record the store can take: nothing lacking, every value one SQLite binds
Storable(kind, r) ==
    /\ ~Lacks(kind, r)
    /\ r.flight_iata # BadV
    /\ r.airline_iata # BadV

\* row holds the fields of record r
RowOf(kind, r, row) ==
    /\ row.flight_iata = r.flight_iata
    /\ row.airline_iata = r.airline_iata
    /\ IF kind = "arrivals"
       THEN row.arr_time = r.arr_time /\ row.arr_sch_time = ResolvedSch(kind, r)
       ELSE row.dep_time = r.dep_time /\ row.dep_sch_time = ResolvedSch(kind, r)

RowsWithKey(kind, key) ==
    {i \in 1..Len(Table(kind)) : RowKey(kind, Table(kind)[i]) = key}

\* the slot of the report that the filter feeding table kind fills
SlotOf(kind) == IF kind = "arrivals" THEN results.llegadas ELSE results.salidas

\* C1: after a call of save_arrivals / save_departures every distinct natural
\* key of the batch that can be stored is in the table exactly once, and a second
\* call in a row with the identical batch reports 0 inserted rows and leaves the
\* table as it was.
C1_IdempotentUpsert ==
    last.done =>
        /\ \A i \in 1..Len(last.batch) :
              Storable(last.kind, last.batch[i]) =>
                  Cardinality(RowsWithKey(last.kind, RecordKey(last.kind, last.batch[i]))) = 1
        /\ last.repeated => (last.ret.n = 0 /\ Table(last.kind) = last.before)

\* C1 witness: a batch of two distinct keys, stored by an earlier call, has been
\* saved a second time in a row.
C1_Witness ==
    /\ last.done /\ last.repeated
    /\ Len(last.batch) = 2
    /\ Storable(last.kind, last.batch[1]) /\ Storable(last.kind, last.batch[2])
    /\ RecordKey(last.kind, last.batch[1]) # RecordKey(last.kind, last.batch[2])
    /\ Len(Table(last.kind)) = 2

\* C3: a record lacking its flight identifier or its mandatory time field leaves
\* no row in the store, the other records of its batch are still processed (each
\* one the store can take has its key in the table), and the report carries the
\* filter's count, not an error.
C3_DiscardRule ==
    last.done =>
        /\ \A i \in 1..Len(last.batch) :
              /\ Lacks(last.kind, last.batch[i]) =>
                    ~\E j \in 1..Len(Table(last.kind)) :
                          RowOf(last.kind, last.batch[i], Table(last.kind)[j])
              /\ Storable(last.kind, last.batch[i]) =>
                    RowsWithKey(last.kind, RecordKey(last.kind, last.batch[i])) # {}
        /\ \A j \in 1..Len(Table(last.kind)) :
              LET key == RowKey(last.kind, Table(last.kind)[j])
              IN key[1] \notin {NoneV, ""} /\ key[2].k \notin {"none", "empty"}
        /\ SlotOf(last.kind).tag = "count"
        /\ SlotOf(last.kind).n = last.ret.n

\* C3 witness: a batch whose first record is discarded and whose second is
\* inserted.
C3_Witness ==
    /\ last.done
    /\ Len(last.batch) = 2
    /\ Lacks(last.kind, last.batch[1])
    /\ Storable(last.kind, last.batch[2])
    /\ last.ret.n = 1
    /\ Len(Table(last.kind)) = Len(last.before) + 1

\* C6: the value a call returns is the number of rows the call added to its
\* table, never more than the batch holds; discarded, duplicate and failed
\* records do not end the batch: every record the store can take has its key in
\* the table afterwards.
C6_InsertedCount ==
    last.done =>
        /\ last.ret.n = Len(Table(last.kind)) - Len(last.before)
        /\ last.ret.n <= Cardinality({RecordKey(last.kind, last.batch[i]) :
                             i \in {i \in 1..Len(last.batch) : Storable(last.kind, last.batch[i])}})
        /\ \A i \in 1..Len(last.batch) :
              Storable(last.kind, last.batch[i]) =>
                  \E j \in 1..Len(Table(last.kind)) :
                      RowKey(last.kind, Table(last.kind)[j]) = RecordKey(last.kind, last.batch[i])

\* C6 witness: the first record's insert failed, the second was inserted and the
\* call returned 1 for a batch of 2.
C6_Witness ==
    /\ last.done
    /\ Len(last.batch) = 2
    /\ last.batch[1].airline_iata = BadV
    /\ Storable(last.kind, last.batch[2])
    /\ last.ret.n = 1
    /\ Len(Table(last.kind)) = Len(last.before) + 1

\* C10 (as claimed): every departure record with a flight identifier and a
\* resolved scheduled time is stored, with a null delay when its actual departure
\* time is absent.
C10_DepartureRetained ==
    (last.done /\ last.kind = "departures") =>
        \A i \in 1..Len(last.batch) :
            LET r == last.batch[i]
            IN (/\ r.flight_iata \notin {NoneV, "", BadV}
                /\ r.airline_iata # BadV
                /\ ResolvedSch("departures", r).k \notin {"none", "empty"})
               => \E j \in 1..Len(departures) :
                     /\ departures[j].flight_iata = r.flight_iata
                     /\ departures[j].dep_sch_time = ResolvedSch("departures", r)
                     /\ (departures[j].dep_time.k = "none" => departures[j].delay_minutes = <<>>)

Filters == {"llegadas", "salidas"}
KindOf(f) == IF f = "llegadas" THEN "arrivals" ELSE "departures"

\* the fetch of a filter failed: transport error or upstream application error
FetchFailed(f) ==
    /\ fetched[f].requested
    /\ fetched[f].kind \in {"transport", "error"}

\* the rows the filter's table gained in this cycle
Gained(f) ==
    IF last.done /\ last.kind = KindOf(f)
    THEN Len(Table(KindOf(f))) - Len(last.before)
    ELSE 0

\* C4 (as claimed): when the fetch of one filter failed, the cycle ends with its
\* report answered, the failure under that filter's error key, and the other
\* filter fetched and, if its fetch did not fail, its inserted count reported.
C4_FailureIsolation ==
    \A f \in Filters : \A g \in Filters \ {f} :
        (pc \in {"done", "crashed"} /\ FetchFailed(f)) =>
            /\ pc = "done"
            /\ results[f].tag = "error"
            /\ fetched[g].kind # ""
            /\ ~FetchFailed(g) => (results[g].tag # "error" /\ results[g].n = Gained(g))

\* C5 (as claimed): a cycle in which the fetch-and-store of at least one filter
\* succeeded answers its report with a success status.
C5_PartialSuccess ==
    (pc = "done" /\ \E f \in Filters : fetched[f].raised = "") => status_code = 200

\* C7 (as claimed): a well-formed answer with no "error" and an empty or absent
\* "response" raises nothing, and the cycle reports the filter with nothing
\* inserted and no error.
C7_EmptyIsNotAnError ==
    \A f \in Filters :
        (fetched[f].requested /\ fetched[f].kind \in {"absent", "empty"}) =>
            /\ fetched[f].raised = ""
            /\ pc # "crashed"
            /\ results[f].tag \in {"count", "empty"}
            /\ results[f].n = 0

\* C9 (as claimed): with the credential unset or still the placeholder, every
\* fetch fails before a request is issued, with a configuration error that is
\* told apart from a transport failure.
C9_CredentialFailsFast ==
    env_key \in {Unset, PLACEHOLDER} =>
        \A f \in Filters :
            fetched[f].kind # "" =>
                /\ ~fetched[f].requested
                /\ fetched[f].raised = "RuntimeError"
                /\ fetched[f].msg = "API Key no configurada"
                /\ results[f].tag = "error"
                /\ results[f].msg # "Error en la peticion HTTP"

\* each table holds at most one row per natural key
OneRowPerKey ==
    \A kind \in {"arrivals", "departures"} :
        \A i \in 1..Len(Table(kind)) : \A j \in 1..Len(Table(kind)) :
            RowKey(kind, Table(kind)[i]) = RowKey(kind, Table(kind)[j]) => i = j

\* a step removes no row and changes none
RowsKept ==
    /\ Len(arrivals') >= Len(arrivals)
    /\ \A i \in 1..Len(arrivals) : arrivals'[i] = arrivals[i]
    /\ Len(departures') >= Len(departures)
    /\ \A i \in 1..Len(departures) : departures'[i] = departures[i]

\* C2: whatever calls of save_arrivals / save_departures run, overlapping or
\* not, each table holds at most one row per natural key and a stored row is
\* never changed or removed: the first write of a key wins.
C2_AppendOnlyFirstWriteWins == [](OneRowPerKey) /\ [][RowsKept]_vars

\* C2 witness: two calls overlap on table arrivals; one has written a row and
\* holds the write lock, the other wrote a row of the same flight at an earlier
\* clock reading, and the stored rows still have different keys.
C2_Witness ==
    /\ conns[1].kind = "arrivals" /\ conns[2].kind = "arrivals"
    /\ lock = 2 /\ conns[2].total_changes = 1
    /\ Len(arrivals) = 2
    /\ arrivals[1].timestamp # arrivals[2].timestamp
    /\ arrivals[1].airline_iata = "UX"
    /\ conns[1].timestamp > conns[2].timestamp

\* the wall-clock reading of a time string in seconds, its offset left out
WallSeconds(t) == t.d * 86400 + t.h * 3600 + t.m * 60 + t.s

\* dateutil reads the string as a date-time
IsDateTime(t) == t.k = "iso" /\ t.d \in 1..31 /\ t.h \in 0..23 /\ t.m \in 0..59 /\ t.s \in 0..59

\* q is x / 60 truncated toward zero
TruncatedMinutes(q, x) ==
    IF x >= 0 THEN q * 60 <= x /\ x < q * 60 + 60
    ELSE q * 60 >= x /\ x > q * 60 - 60

\* C8 (as claimed): for parseable strings the delay is the wall-clock difference
\* in seconds over 60, truncated toward zero, and negative whenever the actual
\* time is the earlier one; otherwise it is null.
C8_DelayAsClaimed ==
    LET diff == WallSeconds(actual_time_str) - WallSeconds(scheduled_time_str)
    IN IF IsDateTime(actual_time_str) /\ IsDateTime(scheduled_time_str)
       THEN /\ Len(delay) = 1
            /\ TruncatedMinutes(delay[1], diff)
            /\ diff < 0 => delay[1] < 0
       ELSE delay = <<>>

\* C8 (amended): for parseable strings the delay is the wall-clock difference in
\* seconds over 60, truncated toward zero: negative when the actual time is a
\* full minute or more earlier, 0 when it is less than a minute earlier (or
\* later), never clamped; otherwise it is null.
C8_Delay ==
    LET diff == WallSeconds(actual_time_str) - WallSeconds(scheduled_time_str)
    IN IF IsDateTime(actual_time_str) /\ IsDateTime(scheduled_time_str)
       THEN /\ Len(delay) = 1
            /\ TruncatedMinutes(delay[1], diff)
            /\ diff <= 0 - 60 => delay[1] < 0
            /\ (diff > 0 - 60 /\ diff < 60) => delay[1] = 0
       ELSE delay = <<>>

\* C8 witness: the actual time is 14 minutes 30 seconds before the scheduled one
\* and carries another offset; the delay is -14.
C8_Witness ==
    /\ IsDateTime(actual_time_str) /\ IsDateTime(scheduled_time_str)
    /\ actual_time_str.off # scheduled_time_str.off
    /\ WallSeconds(actual_time_str) - WallSeconds(scheduled_time_str) = 0 - 870
    /\ delay = <<0 - 14>>

====
